---- MODULE Spec2Model ----
(***************************************************************************)
(* Label layout engine of label-vision: generatePdf of                     *)
(* src/services/label-printer.ts, modelled section by section.             *)
(*                                                                         *)
(* Lengths are integers in units of 1/6000 pt (Pt(1) = 6000), which makes  *)
(* every quantity the code computes on the inputs below exact: glyph       *)
(* advances are in 1/1000 em, column widths divide by 2 or 3, centring     *)
(* divides by 2.  The code computes in IEEE doubles; the model computes    *)
(* the same expressions over the rationals.                                *)
(*                                                                         *)
(* Text is a sequence of one-character strings.  The font metrics are      *)
(* those of the standard-14 fonts pdf-lib embeds (AFM advance widths,      *)
(* ascender minus descender), restricted to the characters used here.      *)
(***************************************************************************)
EXTENDS Integers, Sequences, FiniteSets, TLC

VARIABLES
    dimensions,          \* argument: [labelWidthQ, labelHeightQ] in quarter inches
    labelContent,        \* argument: [summary, items, fontFamily, textAlign, image]
    pc,                  \* position inside generatePdf
    frame,               \* the local variables of the running call, and its page
    returned,            \* what the call resolved with ("none" while running)
    calls,               \* number of calls started so far
    previous,            \* what the previous call left behind ("none" for the first)
    request,             \* POST /api/print-status: the body of the incoming request
    handlerPc,           \* POST /api/print-status: position inside the handler
    body,                \* POST /api/print-status: what req.json() resolved with
    responses,           \* POST /api/print-status: the responses the handler returned
    previewInputs,       \* LabelPreview: one entry per render whose inputs changed
    timeoutId,           \* LabelPreview: the render whose debounce timer is pending (0: none)
    generating,          \* LabelPreview: the renders whose generatePreview awaits generatePdf
    objectUrls,          \* LabelPreview: the renders whose effect holds a created object URL
    revokedUrls,         \* LabelPreview: the renders whose object URL was revoked
    pdfPreviewUrl,       \* LabelPreview: the render whose URL is displayed (0: null)
    apiStatus,           \* LabelVisionPage: 'pending', 'healthy' or 'unhealthy'
    availablePrinters,   \* LabelVisionPage: the printer list
    selectedPrinter,     \* LabelVisionPage: the selected printer or null
    printerFetches,      \* LabelVisionPage: the fetchPrinters calls awaiting their response
    fetchesStarted,      \* LabelVisionPage: number of fetchPrinters calls that reached fetch
    healthChecks,        \* LabelVisionPage: number of checkApiHealth calls awaiting their response
    healthChecksStarted, \* LabelVisionPage: number of checkApiHealth calls so far
    width,               \* LabelDimensionsForm: the text of the width field
    height,              \* LabelDimensionsForm: the text of the height field
    widthError,          \* LabelDimensionsForm: whether widthError is set
    heightError,         \* LabelDimensionsForm: whether heightError is set
    currentDimensions,   \* LabelVisionPage: the dimensions handed to the layout
    propagated           \* LabelDimensionsForm: the argument of the last edit's onDimensionsChange

layoutVars == <<dimensions, labelContent, pc, frame, returned, calls, previous>>
statusVars == <<request, handlerPc, body, responses>>
previewVars == <<previewInputs, timeoutId, generating, objectUrls, revokedUrls, pdfPreviewUrl>>
printerVars == <<apiStatus, availablePrinters, selectedPrinter, printerFetches,
                 fetchesStarted, healthChecks, healthChecksStarted>>
formVars == <<width, height, widthError, heightError, currentDimensions, propagated>>
vars == <<layoutVars, statusVars, previewVars, printerVars, formVars>>

\* the components that take no part in a specification stay as they are
PreviewIdle ==
    /\ previewInputs = <<>> /\ timeoutId = 0 /\ generating = {}
    /\ objectUrls = {} /\ revokedUrls = {} /\ pdfPreviewUrl = 0
PrintersIdle ==
    /\ apiStatus = "pending" /\ availablePrinters = <<>> /\ selectedPrinter = "null"
    /\ printerFetches = {} /\ fetchesStarted = 0
    /\ healthChecks = 0 /\ healthChecksStarted = 0
FormIdle ==
    /\ width = "" /\ height = "" /\ widthError = FALSE /\ heightError = FALSE
    /\ currentDimensions = [labelWidthInches |-> [nan |-> FALSE, value |-> 0],
                            labelHeightInches |-> [nan |-> FALSE, value |-> 0]]
    /\ propagated = [called |-> FALSE]
StatusIdle ==
    /\ request = [kind |-> "none"] /\ handlerPc = "idle"
    /\ body = [type |-> "undefined"] /\ responses = <<>>

----------------------------------------------------------------------------
(* Bounds of the model *)

MaxItems == 3
MaxCalls == 2

----------------------------------------------------------------------------
(* Units and program constants *)

Pt(n) == n * 6000

DPI == 72

margin == Pt(5)
headerBottomMargin == Pt(4)
lineThickness == Pt(1) \div 2
lineTopMargin == Pt(2)
lineBottomMargin == Pt(4)
itemSpacing == Pt(3) \div 2
imagePadding == Pt(4)

maxHeaderFontSize == 24
minHeaderFontSize == 8
maxItemFontSize == 14
minItemFontSize == 6
maxNumCols == 3

\* Math.ceil(a / b) for a >= 0, b > 0
Ceil(a, b) == (a + b - 1) \div b

----------------------------------------------------------------------------
(* Font metrics (pdf-lib standard fonts) *)

BaseFontOf(fontFamily) ==
    CASE fontFamily = "Times-Roman" -> "Times-Roman"
      [] fontFamily = "Courier"     -> "Courier"
      [] OTHER                      -> "Helvetica"

BoldFontOf(fontFamily) ==
    CASE fontFamily = "Times-Roman" -> "Times-Bold"
      [] fontFamily = "Courier"     -> "Courier-Bold"
      [] OTHER                      -> "Helvetica-Bold"

\* advance width of a glyph, in 1/1000 em
GlyphWidth(font, ch) ==
    CASE font = "Helvetica"      -> (CASE ch = "i" -> 222 [] ch = "a" -> 556 [] OTHER -> 944)
      [] font = "Helvetica-Bold" -> (CASE ch = "i" -> 278 [] ch = "a" -> 556 [] OTHER -> 944)
      [] font = "Times-Roman"    -> (CASE ch = "i" -> 278 [] ch = "a" -> 444 [] OTHER -> 944)
      [] font = "Times-Bold"     -> (CASE ch = "i" -> 278 [] ch = "a" -> 500 [] OTHER -> 1000)
      [] OTHER                   -> 600

\* ascender minus descender, in 1/1000 em
FontHeight(font) ==
    CASE font \in {"Helvetica", "Helvetica-Bold"} -> 925
      [] font \in {"Times-Roman", "Times-Bold"}   -> 900
      [] OTHER                                    -> 786

RECURSIVE TextAdvance(_, _)
TextAdvance(font, text) ==
    IF text = <<>> THEN 0
    ELSE GlyphWidth(font, Head(text)) + TextAdvance(font, Tail(text))

\* font.widthOfTextAtSize(text, size): advance * size / 1000 pt
widthOfTextAtSize(font, text, size) == TextAdvance(font, text) * size * 6

\* font.heightAtSize(size): (ascender - descender) * size / 1000 pt
heightAtSize(font, size) == FontHeight(font) * size * 6

----------------------------------------------------------------------------
(* Inputs *)

NoImage == [format |-> "none", decodes |-> FALSE, w |-> 0, h |-> 0]

Images ==
    { NoImage,
      [format |-> "gif",  decodes |-> TRUE,  w |-> 40, h |-> 20],
      [format |-> "png",  decodes |-> FALSE, w |-> 40, h |-> 20],
      [format |-> "jpeg", decodes |-> TRUE,  w |-> 40, h |-> 20] }

\* label sizes in quarter inches: 0.5" and 2.25" wide, 0.5", 0.75" and 1.25" high,
\* and three sizes no label has
WidthsQ == {2, 9}
HeightsQ == {2, 3, 5}
InvalidDimensions ==
    { [labelWidthQ |-> 0, labelHeightQ |-> 5],
      [labelWidthQ |-> 9, labelHeightQ |-> 0],
      [labelWidthQ |-> -2, labelHeightQ |-> -2] }

Summaries == { <<>>, <<"W", "i">>, <<"W", "W", "W", "W", "W">> }

ItemTexts == { <<"a", "i", "a">>, <<"W", "W", "W", "W", "W", "W", "W", "W">> }

ItemLists == UNION { [1..n -> ItemTexts] : n \in 0..MaxItems }

FontFamilies == {"Helvetica", "Courier"}
TextAligns == {"left", "center", "right"}

Dimensions == [labelWidthQ : WidthsQ, labelHeightQ : HeightsQ] \cup InvalidDimensions

LabelContents ==
    [summary : Summaries, items : ItemLists, fontFamily : FontFamilies,
     textAlign : TextAligns, image : Images]

----------------------------------------------------------------------------
(* Header *)

\* variant: the loop shrinks by 2pt a step
RECURSIVE HeaderFitLoopBy2(_, _, _, _)
HeaderFitLoopBy2(font, summary, cw, size) ==
    IF widthOfTextAtSize(font, summary, size) > cw /\ size > minHeaderFontSize
    THEN HeaderFitLoopBy2(font, summary, cw, size - 2)
    ELSE size

\* the while loop of the header: shrink by 1pt while too wide and above the floor
RECURSIVE HeaderFitLoop(_, _, _, _)
HeaderFitLoop(font, summary, cw, size) ==
    IF widthOfTextAtSize(font, summary, size) > cw /\ size > minHeaderFontSize
    THEN HeaderFitLoop(font, summary, cw, size - 1)
    ELSE size

\* variant: the loop has no floor test and shrinks down to 0
RECURSIVE HeaderFitLoopIterationsNoFloor(_, _, _, _)
HeaderFitLoopIterationsNoFloor(font, summary, cw, size) ==
    IF widthOfTextAtSize(font, summary, size) > cw /\ size > 0
    THEN 1 + HeaderFitLoopIterationsNoFloor(font, summary, cw, size - 1)
    ELSE 0

\* how many times the body of the header's while loop runs
RECURSIVE HeaderFitLoopIterations(_, _, _, _)
HeaderFitLoopIterations(font, summary, cw, size) ==
    IF widthOfTextAtSize(font, summary, size) > cw /\ size > minHeaderFontSize
    THEN 1 + HeaderFitLoopIterations(font, summary, cw, size - 1)
    ELSE 0

\* variant: right alignment flush with the page edge, without the margin
HeaderXFlushRight(textAlign, w, textWidth) ==
    CASE textAlign = "center" -> (w - textWidth) \div 2
      [] textAlign = "right"  -> w - textWidth
      [] OTHER                -> margin

HeaderX(textAlign, w, textWidth) ==
    CASE textAlign = "center" -> (w - textWidth) \div 2
      [] textAlign = "right"  -> w - margin - textWidth
      [] OTHER                -> margin

----------------------------------------------------------------------------
(* Image *)

\* variant: the else branch embeds whatever it is given instead of warning
EmbedOutcomeEmbedsUnknown(image) ==
    CASE image.format = "none" -> "absent"
      [] OTHER                 -> IF image.decodes THEN "embedded" ELSE "threw"

\* which branch of the try block the data URI takes
EmbedOutcome(image) ==
    CASE image.format = "none"             -> "absent"
      [] image.format \in {"png", "jpeg"}  -> IF image.decodes THEN "embedded" ELSE "threw"
      [] OTHER                             -> "unsupported"

\* variant: Math.min without the 1, so a small image is scaled up
ScaledDimsUpscaling(image, cw, h) ==
    LET maxAllowedImageHeight == ((h - 2 * margin) * 3) \div 10
    IN  IF cw * image.h <= maxAllowedImageHeight * image.w
        THEN [width |-> cw, height |-> (image.h * cw) \div image.w]
        ELSE [width |-> (image.w * maxAllowedImageHeight) \div image.h,
              height |-> maxAllowedImageHeight]

\* embeddedImage.scale(Math.min(cw / w, maxAllowed / h, 1))
ScaledDims(image, cw, h) ==
    LET maxAllowedImageHeight == ((h - 2 * margin) * 3) \div 10
        iw == Pt(image.w)
        ih == Pt(image.h)
        byWidth  == [width |-> cw, height |-> (image.h * cw) \div image.w]
        byHeight == [width |-> (image.w * maxAllowedImageHeight) \div image.h,
                     height |-> maxAllowedImageHeight]
        asIs     == [width |-> iw, height |-> ih]
    IN  IF cw * image.h <= maxAllowedImageHeight * image.w
        THEN (IF cw <= iw THEN byWidth ELSE asIs)
        ELSE (IF maxAllowedImageHeight <= ih THEN byHeight ELSE asIs)

----------------------------------------------------------------------------
(* Item list *)

ColWidth(cw, numCols) == (cw - (numCols - 1) * margin) \div numCols

\* variant: Math.floor in place of Math.ceil for itemsPerCol
PairFitsFloor(font, items, cw, avail, fontSize, numCols) ==
    LET totalLineHeight == heightAtSize(font, fontSize) + itemSpacing
        requiredHeight == (Len(items) \div numCols) * totalLineHeight
    IN  /\ requiredHeight <= avail
        /\ \A i \in 1..Len(items) :
              widthOfTextAtSize(font, items[i], fontSize) <= ColWidth(cw, numCols)

\* variant: the height comparison the wrong way round
PairFitsInverted(font, items, cw, avail, fontSize, numCols) ==
    LET totalLineHeight == heightAtSize(font, fontSize) + itemSpacing
        requiredHeight == Ceil(Len(items), numCols) * totalLineHeight
    IN  /\ requiredHeight >= avail
        /\ \A i \in 1..Len(items) :
              widthOfTextAtSize(font, items[i], fontSize) <= ColWidth(cw, numCols)

\* variant: the width test left out
PairFitsHeightOnly(font, items, cw, avail, fontSize, numCols) ==
    LET totalLineHeight == heightAtSize(font, fontSize) + itemSpacing
    IN  Ceil(Len(items), numCols) * totalLineHeight <= avail

\* variant: the search accepts a pair on its width test alone
PairFitsWidthOnly(font, items, cw, avail, fontSize, numCols) ==
    LET colWidth == ColWidth(cw, numCols)
    IN  \A i \in 1..Len(items) :
            widthOfTextAtSize(font, items[i], fontSize) <= colWidth

\* the test of one (fontSize, numCols) pair inside findOptimalFit
PairFits(font, items, cw, avail, fontSize, numCols) ==
    LET totalLineHeight == heightAtSize(font, fontSize) + itemSpacing
        colWidth == ColWidth(cw, numCols)
        itemsPerCol == Ceil(Len(items), numCols)
        requiredHeight == itemsPerCol * totalLineHeight
        itemsFitWidth == \A i \in 1..Len(items) :
                            widthOfTextAtSize(font, items[i], fontSize) <= colWidth
    IN  requiredHeight <= avail /\ itemsFitWidth

\* variant: optimalFontSize/optimalColumns track the loop variables, so an
\* exhausted search leaves them one step past the ranges
RECURSIVE FindOptimalFitLoopVars(_, _, _, _, _, _)
FindOptimalFitLoopVars(font, items, cw, avail, fontSize, numCols) ==
    IF fontSize < minItemFontSize
    THEN [fontSize |-> fontSize, columns |-> 0, found |-> FALSE]
    ELSE IF numCols < 1
    THEN FindOptimalFitLoopVars(font, items, cw, avail, fontSize - 1, maxNumCols)
    ELSE IF PairFits(font, items, cw, avail, fontSize, numCols)
    THEN [fontSize |-> fontSize, columns |-> numCols, found |-> TRUE]
    ELSE FindOptimalFitLoopVars(font, items, cw, avail, fontSize, numCols - 1)

\* the labelled nested loops: fontSize from 14 down to 6, numCols from 3 down to 1
RECURSIVE FindOptimalFit(_, _, _, _, _, _)
FindOptimalFit(font, items, cw, avail, fontSize, numCols) ==
    IF fontSize < minItemFontSize
    THEN [fontSize |-> minItemFontSize, columns |-> 1, found |-> FALSE]
    ELSE IF numCols < 1
    THEN FindOptimalFit(font, items, cw, avail, fontSize - 1, maxNumCols)
    ELSE IF PairFits(font, items, cw, avail, fontSize, numCols)
    THEN [fontSize |-> fontSize, columns |-> numCols, found |-> TRUE]
    ELSE FindOptimalFit(font, items, cw, avail, fontSize, numCols - 1)

\* how many (fontSize, numCols) pairs the nested loops test before they end
RECURSIVE FindOptimalFitPairsExamined(_, _, _, _, _, _)
FindOptimalFitPairsExamined(font, items, cw, avail, fontSize, numCols) ==
    IF fontSize < minItemFontSize
    THEN 0
    ELSE IF numCols < 1
    THEN FindOptimalFitPairsExamined(font, items, cw, avail, fontSize - 1, maxNumCols)
    ELSE IF PairFits(font, items, cw, avail, fontSize, numCols)
    THEN 1
    ELSE 1 + FindOptimalFitPairsExamined(font, items, cw, avail, fontSize, numCols - 1)

\* the pairs tested by a call: none when the guard of line 160 skips the search
FitItemsPairsExamined(font, items, cw, avail) ==
    IF Len(items) > 0 /\ avail > 0
    THEN FindOptimalFitPairsExamined(font, items, cw, avail, maxItemFontSize, maxNumCols)
    ELSE 0

\* variant: the search runs without the items.length > 0 guard
FitItemsUnguarded(font, items, cw, avail) ==
    IF avail > 0
    THEN FindOptimalFit(font, items, cw, avail, maxItemFontSize, maxNumCols)
    ELSE [fontSize |-> minItemFontSize, columns |-> 1, found |-> FALSE]

\* variant: optimalFontSize initialised to the maximum instead of the minimum
FitItemsStartsAtMax(font, items, cw, avail) ==
    IF Len(items) > 0 /\ avail > 0
    THEN FindOptimalFit(font, items, cw, avail, maxItemFontSize, maxNumCols)
    ELSE [fontSize |-> maxItemFontSize, columns |-> 1, found |-> FALSE]

\* variant: optimalColumns initialised to 2, so a failed search draws two columns
FitItemsFallbackTwoColumns(font, items, cw, avail) ==
    LET fit == IF Len(items) > 0 /\ avail > 0
               THEN FindOptimalFit(font, items, cw, avail, maxItemFontSize, maxNumCols)
               ELSE [fontSize |-> minItemFontSize, columns |-> 1, found |-> FALSE]
    IN  IF fit.found THEN fit ELSE [fit EXCEPT !.columns = 2]

\* the guard around the search and the initial values of optimalFontSize/Columns
FitItems(font, items, cw, avail) ==
    IF Len(items) > 0 /\ avail > 0
    THEN FindOptimalFit(font, items, cw, avail, maxItemFontSize, maxNumCols)
    ELSE [fontSize |-> minItemFontSize, columns |-> 1, found |-> FALSE]

\* variant: right-aligned text starts at the right edge of its column
ItemXRightOfColumn(textAlign, colStartX, colWidth, textWidth) ==
    CASE textAlign = "center" -> colStartX + (colWidth - textWidth) \div 2
      [] textAlign = "right"  -> colStartX + colWidth
      [] OTHER                -> colStartX

ItemX(textAlign, colStartX, colWidth, textWidth) ==
    CASE textAlign = "center" -> colStartX + (colWidth - textWidth) \div 2
      [] textAlign = "right"  -> colStartX + colWidth - textWidth
      [] OTHER                -> colStartX

\* variant: the drawing loops without the overflow check of line 204
RECURSIVE DrawLoopUnchecked(_, _, _, _, _, _)
DrawLoopUnchecked(c, col, row, itemIndex, currentItemY, drawn) ==
    IF col >= c.columns THEN drawn
    ELSE IF row < c.itemsPerCol /\ itemIndex < Len(c.items)
    THEN LET item == c.items[itemIndex + 1]
             itemTextWidth == widthOfTextAtSize(c.font, item, c.fontSize)
             colStartX == margin + col * (c.colWidth + margin)
             itemX == ItemX(c.textAlign, colStartX, c.colWidth, itemTextWidth)
         IN  DrawLoopUnchecked(c, col, row + 1, itemIndex + 1,
                               currentItemY - c.totalLineHeight,
                               Append(drawn, [kind |-> "item", content |-> item,
                                              index |-> itemIndex, col |-> col, row |-> row,
                                              x |-> itemX, y |-> currentItemY,
                                              textWidth |-> itemTextWidth,
                                              size |-> c.fontSize, font |-> c.font]))
    ELSE IF itemIndex >= Len(c.items) THEN drawn
         ELSE DrawLoopUnchecked(c, col + 1, 0, itemIndex, c.startY, drawn)

\* variant: the overflow check compares with the bottom margin alone
RECURSIVE DrawLoopMarginOnly(_, _, _, _, _, _)
DrawLoopMarginOnly(c, col, row, itemIndex, currentItemY, drawn) ==
    IF col >= c.columns THEN drawn
    ELSE IF row < c.itemsPerCol /\ itemIndex < Len(c.items)
    THEN LET item == c.items[itemIndex + 1]
             itemTextWidth == widthOfTextAtSize(c.font, item, c.fontSize)
             colStartX == margin + col * (c.colWidth + margin)
             itemX == ItemX(c.textAlign, colStartX, c.colWidth, itemTextWidth)
         IN  IF currentItemY < margin
             THEN IF itemIndex + 1 >= Len(c.items) THEN drawn
                  ELSE DrawLoopMarginOnly(c, col + 1, 0, itemIndex + 1, c.startY, drawn)
             ELSE DrawLoopMarginOnly(c, col, row + 1, itemIndex + 1,
                                     currentItemY - c.totalLineHeight,
                                     Append(drawn, [kind |-> "item", content |-> item,
                                                    index |-> itemIndex, col |-> col, row |-> row,
                                                    x |-> itemX, y |-> currentItemY,
                                                    textWidth |-> itemTextWidth,
                                                    size |-> c.fontSize, font |-> c.font]))
    ELSE IF itemIndex >= Len(c.items) THEN drawn
         ELSE DrawLoopMarginOnly(c, col + 1, 0, itemIndex, c.startY, drawn)

\* the two drawing loops; c holds the values fixed before the loops
RECURSIVE DrawLoop(_, _, _, _, _, _)
DrawLoop(c, col, row, itemIndex, currentItemY, drawn) ==
    IF col >= c.columns THEN drawn
    ELSE IF row < c.itemsPerCol /\ itemIndex < Len(c.items)
    THEN LET item == c.items[itemIndex + 1]
             itemTextWidth == widthOfTextAtSize(c.font, item, c.fontSize)
             colStartX == margin + col * (c.colWidth + margin)
             itemX == ItemX(c.textAlign, colStartX, c.colWidth, itemTextWidth)
         IN  IF currentItemY < margin + c.imageSectionHeight
             THEN \* break out of the row loop; itemIndex was already advanced
                  IF itemIndex + 1 >= Len(c.items) THEN drawn
                  ELSE DrawLoop(c, col + 1, 0, itemIndex + 1, c.startY, drawn)
             ELSE DrawLoop(c, col, row + 1, itemIndex + 1,
                           currentItemY - c.totalLineHeight,
                           Append(drawn, [kind |-> "item", content |-> item,
                                          index |-> itemIndex, col |-> col, row |-> row,
                                          x |-> itemX, y |-> currentItemY,
                                          textWidth |-> itemTextWidth,
                                          size |-> c.fontSize, font |-> c.font]))
    ELSE IF itemIndex >= Len(c.items) THEN drawn
         ELSE DrawLoop(c, col + 1, 0, itemIndex, c.startY, drawn)

\* the indexes read by items[itemIndex++] in the drawing loops, in order,
\* whether the item was then drawn or stopped by the overflow check
RECURSIVE DrawLoopVisits(_, _, _, _, _, _)
DrawLoopVisits(c, col, row, itemIndex, currentItemY, visited) ==
    IF col >= c.columns THEN visited
    ELSE IF row < c.itemsPerCol /\ itemIndex < Len(c.items)
    THEN IF currentItemY < margin + c.imageSectionHeight
         THEN IF itemIndex + 1 >= Len(c.items) THEN Append(visited, itemIndex)
              ELSE DrawLoopVisits(c, col + 1, 0, itemIndex + 1, c.startY,
                                  Append(visited, itemIndex))
         ELSE DrawLoopVisits(c, col, row + 1, itemIndex + 1,
                             currentItemY - c.totalLineHeight,
                             Append(visited, itemIndex))
    ELSE IF itemIndex >= Len(c.items) THEN visited
         ELSE DrawLoopVisits(c, col + 1, 0, itemIndex, c.startY, visited)

DrawItemsVisits(font, items, cw, startY, imgSection, fontSize, columns) ==
    LET itemTextHeight == heightAtSize(font, fontSize)
        c == [items |-> items, columns |-> columns,
              totalLineHeight |-> itemTextHeight + itemSpacing,
              itemsPerCol |-> Ceil(Len(items), columns),
              imageSectionHeight |-> imgSection,
              startY |-> startY - itemTextHeight]
    IN  DrawLoopVisits(c, 0, 0, 0, startY - itemTextHeight, <<>>)

\* variant: rows advance by the text height alone, without itemSpacing
DrawItemsNoSpacing(font, items, textAlign, cw, startY, imgSection, fontSize, columns) ==
    LET itemTextHeight == heightAtSize(font, fontSize)
        c == [font |-> font, items |-> items, textAlign |-> textAlign,
              fontSize |-> fontSize, columns |-> columns,
              totalLineHeight |-> itemTextHeight,
              colWidth |-> ColWidth(cw, columns),
              itemsPerCol |-> Ceil(Len(items), columns),
              imageSectionHeight |-> imgSection,
              startY |-> startY - itemTextHeight]
    IN  DrawLoop(c, 0, 0, 0, startY - itemTextHeight, <<>>)

DrawItems(font, items, textAlign, cw, startY, imgSection, fontSize, columns) ==
    LET itemTextHeight == heightAtSize(font, fontSize)
        c == [font |-> font, items |-> items, textAlign |-> textAlign,
              fontSize |-> fontSize, columns |-> columns,
              totalLineHeight |-> itemTextHeight + itemSpacing,
              colWidth |-> ColWidth(cw, columns),
              itemsPerCol |-> Ceil(Len(items), columns),
              imageSectionHeight |-> imgSection,
              startY |-> startY - itemTextHeight]
    IN  DrawLoop(c, 0, 0, 0, startY - itemTextHeight, <<>>)

----------------------------------------------------------------------------
(* generatePdf, section by section, on the frame of its local variables *)

\* variant: one document shared by all calls, each drawing on the same page
addPageShared(old) == old

\* PDFDocument.create() and addPage: the page a call draws on
addPage(old) == <<>>

\* the frame before a call has declared anything
FreshFrame ==
    [width |-> 0, height |-> 0, baseFont |-> "Helvetica", boldFont |-> "Helvetica-Bold",
     currentY |-> 0, headerFontSize |-> maxHeaderFontSize, headerTextWidth |-> 0,
     embeddedImage |-> FALSE, imageDims |-> [width |-> 0, height |-> 0],
     imageSectionHeight |-> 0, optimalFontSize |-> minItemFontSize,
     optimalColumns |-> 1, page |-> <<>>,
     headerLoopCount |-> 0, pairsExamined |-> 0, itemsVisited |-> <<>>]

contentWidth(f) == f.width - 2 * margin
itemListStartY(f) == f.currentY
availableHeightForItems(f) == itemListStartY(f) - margin - f.imageSectionHeight

\* lines 39-71: page creation, font selection, margins
SetupStep(dims, content, f) ==
    LET heightPt == (dims.labelHeightQ * Pt(DPI)) \div 4
    IN  [f EXCEPT !.width = (dims.labelWidthQ * Pt(DPI)) \div 4,
                  !.height = heightPt,
                  !.page = addPage(f.page),
                  !.baseFont = BaseFontOf(content.fontFamily),
                  !.boldFont = BoldFontOf(content.fontFamily),
                  !.currentY = heightPt - margin]

\* lines 80-106: fit the header, draw it
HeaderStep(content, f) ==
    LET size == HeaderFitLoop(f.boldFont, content.summary, contentWidth(f),
                              maxHeaderFontSize)
        textWidth == widthOfTextAtSize(f.boldFont, content.summary, size)
        headerTextHeight == heightAtSize(f.boldFont, size)
        headerX == HeaderX(content.textAlign, f.width, textWidth)
        headerY == f.currentY - headerTextHeight
    IN  [f EXCEPT !.headerFontSize = size,
                  !.headerLoopCount =
                      HeaderFitLoopIterations(f.boldFont, content.summary,
                                              contentWidth(f), maxHeaderFontSize),
                  !.headerTextWidth = textWidth,
                  !.page = Append(f.page,
                                  [kind |-> "header", content |-> content.summary,
                                   x |-> headerX, y |-> headerY,
                                   textWidth |-> textWidth, size |-> size,
                                   font |-> f.boldFont]),
                  !.currentY = headerY - headerBottomMargin]

\* variant: the separator drawn twice (a leftover second drawLine)
SeparatorStepTwice(f) ==
    LET lineY == f.currentY - lineTopMargin
        line == [kind |-> "line", x0 |-> margin, y0 |-> lineY,
                 x1 |-> f.width - margin, y1 |-> lineY, thickness |-> lineThickness]
    IN  [f EXCEPT !.page = Append(Append(f.page, line), line),
                  !.currentY = lineY - lineBottomMargin]

\* variant: the line's thickness taken off the running Y as well
SeparatorStepMinusThickness(f) ==
    LET lineY == f.currentY - lineTopMargin
    IN  [f EXCEPT !.page = Append(f.page,
                                  [kind |-> "line", x0 |-> margin, y0 |-> lineY,
                                   x1 |-> f.width - margin, y1 |-> lineY,
                                   thickness |-> lineThickness]),
                  !.currentY = lineY - lineThickness - lineBottomMargin]

\* lines 108-116: the separator line
SeparatorStep(f) ==
    LET lineY == f.currentY - lineTopMargin
    IN  [f EXCEPT !.page = Append(f.page,
                                  [kind |-> "line", x0 |-> margin, y0 |-> lineY,
                                   x1 |-> f.width - margin, y1 |-> lineY,
                                   thickness |-> lineThickness]),
                  !.currentY = lineY - lineBottomMargin]

\* lines 119-147: embed the image, reserve its zone
ImageStep(content, f) ==
    IF EmbedOutcome(content.image) = "embedded"
    THEN LET scaled == ScaledDims(content.image, contentWidth(f), f.height)
         IN  [f EXCEPT !.embeddedImage = TRUE,
                       !.imageDims = scaled,
                       !.imageSectionHeight = scaled.height + imagePadding * 2]
    ELSE [f EXCEPT !.embeddedImage = FALSE,
                   !.imageDims = [width |-> 0, height |-> 0],
                   !.imageSectionHeight = 0]

\* lines 149-180: the item budget and the search
FitStep(content, f) ==
    LET fit == FitItems(f.baseFont, content.items, contentWidth(f),
                        availableHeightForItems(f))
    IN  [f EXCEPT !.optimalFontSize = fit.fontSize,
                  !.optimalColumns = fit.columns,
                  !.pairsExamined =
                      FitItemsPairsExamined(f.baseFont, content.items, contentWidth(f),
                                            availableHeightForItems(f))]

\* variant: the items are drawn only when the search accepted a pair
ItemsStepOnlyWhenFound(content, f) ==
    IF /\ Len(content.items) > 0 /\ availableHeightForItems(f) > 0
       /\ FindOptimalFit(f.baseFont, content.items, contentWidth(f),
                         availableHeightForItems(f), maxItemFontSize, maxNumCols).found
    THEN [f EXCEPT !.page = f.page \o
                      DrawItems(f.baseFont, content.items, content.textAlign,
                                contentWidth(f), itemListStartY(f),
                                f.imageSectionHeight, f.optimalFontSize,
                                f.optimalColumns),
                   !.itemsVisited =
                      DrawItemsVisits(f.baseFont, content.items, contentWidth(f),
                                      itemListStartY(f), f.imageSectionHeight,
                                      f.optimalFontSize, f.optimalColumns)]
    ELSE [f EXCEPT !.itemsVisited = <<>>]

\* lines 182-225: draw the items, inside the guard of line 160
ItemsStep(content, f) ==
    IF Len(content.items) > 0 /\ availableHeightForItems(f) > 0
    THEN [f EXCEPT !.page = f.page \o
                      DrawItems(f.baseFont, content.items, content.textAlign,
                                contentWidth(f), itemListStartY(f),
                                f.imageSectionHeight, f.optimalFontSize,
                                f.optimalColumns),
                   !.itemsVisited =
                      DrawItemsVisits(f.baseFont, content.items, contentWidth(f),
                                      itemListStartY(f), f.imageSectionHeight,
                                      f.optimalFontSize, f.optimalColumns)]
    ELSE [f EXCEPT !.itemsVisited = <<>>]

\* variant: the image placed right under the top of the item area
DrawImageStepUnderItems(f) ==
    IF f.embeddedImage /\ f.imageDims.width > 0 /\ f.imageDims.height > 0
    THEN [f EXCEPT !.page = Append(f.page,
                                   [kind |-> "image",
                                    x |-> (f.width - f.imageDims.width) \div 2,
                                    y |-> itemListStartY(f) - f.imageDims.height,
                                    width |-> f.imageDims.width,
                                    height |-> f.imageDims.height])]
    ELSE f

\* lines 228-243: draw the image
DrawImageStep(f) ==
    IF f.embeddedImage /\ f.imageDims.width > 0 /\ f.imageDims.height > 0
    THEN [f EXCEPT !.page = Append(f.page,
                                   [kind |-> "image",
                                    x |-> (f.width - f.imageDims.width) \div 2,
                                    y |-> margin + imagePadding,
                                    width |-> f.imageDims.width,
                                    height |-> f.imageDims.height])]
    ELSE f

\* lines 246-258: the serialised page
SaveResult(f) == [width |-> f.width, height |-> f.height, primitives |-> f.page]

\* the frame at the end of a whole call that started on frame f
RunFrom(dims, content, f) ==
    DrawImageStep(
      ItemsStep(content,
        FitStep(content,
          ImageStep(content,
            SeparatorStep(
              HeaderStep(content,
                SetupStep(dims, content, f)))))))

\* what a call leaves behind: the returned page and the sizes it logs
Outcome(f) ==
    [result |-> SaveResult(f), headerFontSize |-> f.headerFontSize,
     optimalFontSize |-> f.optimalFontSize, optimalColumns |-> f.optimalColumns,
     imageDims |-> f.imageDims, imageSectionHeight |-> f.imageSectionHeight,
     availableHeightForItems |-> availableHeightForItems(f)]

generatePdf(dims, content) == Outcome(RunFrom(dims, content, FreshFrame))

\* the frame of a fresh call when its search returns (line 180)
FrameAtFit(dims, content) ==
    FitStep(content,
      ImageStep(content,
        SeparatorStep(
          HeaderStep(content,
            SetupStep(dims, content, FreshFrame)))))

----------------------------------------------------------------------------
(* The state machine *)

Init ==
    /\ dimensions \in Dimensions
    /\ labelContent \in LabelContents
    /\ pc = "entry"
    /\ frame = FreshFrame
    /\ returned = "none"
    /\ calls = 1
    /\ previous = "none"
    /\ StatusIdle /\ PreviewIdle /\ PrintersIdle /\ FormIdle

Setup ==
    /\ pc = "entry"
    /\ frame' = SetupStep(dimensions, labelContent, frame)
    /\ pc' = "header"
    /\ UNCHANGED <<dimensions, labelContent, returned, calls, previous>>
    /\ UNCHANGED <<statusVars, previewVars, printerVars, formVars>>

Header ==
    /\ pc = "header"
    /\ frame' = HeaderStep(labelContent, frame)
    /\ pc' = "separator"
    /\ UNCHANGED <<dimensions, labelContent, returned, calls, previous>>
    /\ UNCHANGED <<statusVars, previewVars, printerVars, formVars>>

Separator ==
    /\ pc = "separator"
    /\ frame' = SeparatorStep(frame)
    /\ pc' = "image"
    /\ UNCHANGED <<dimensions, labelContent, returned, calls, previous>>
    /\ UNCHANGED <<statusVars, previewVars, printerVars, formVars>>

Image ==
    /\ pc = "image"
    /\ frame' = ImageStep(labelContent, frame)
    /\ pc' = "fit"
    /\ UNCHANGED <<dimensions, labelContent, returned, calls, previous>>
    /\ UNCHANGED <<statusVars, previewVars, printerVars, formVars>>

Fit ==
    /\ pc = "fit"
    /\ frame' = FitStep(labelContent, frame)
    /\ pc' = "items"
    /\ UNCHANGED <<dimensions, labelContent, returned, calls, previous>>
    /\ UNCHANGED <<statusVars, previewVars, printerVars, formVars>>

Items ==
    /\ pc = "items"
    /\ frame' = ItemsStep(labelContent, frame)
    /\ pc' = "drawImage"
    /\ UNCHANGED <<dimensions, labelContent, returned, calls, previous>>
    /\ UNCHANGED <<statusVars, previewVars, printerVars, formVars>>

DrawImage ==
    /\ pc = "drawImage"
    /\ frame' = DrawImageStep(frame)
    /\ pc' = "save"
    /\ UNCHANGED <<dimensions, labelContent, returned, calls, previous>>
    /\ UNCHANGED <<statusVars, previewVars, printerVars, formVars>>

Save ==
    /\ pc = "save"
    /\ returned' = SaveResult(frame)
    /\ pc' = "done"
    /\ UNCHANGED <<dimensions, labelContent, frame, calls, previous>>
    /\ UNCHANGED <<statusVars, previewVars, printerVars, formVars>>

\* the caller invokes generatePdf again with the same arguments
CallAgain ==
    /\ pc = "done"
    /\ calls < MaxCalls
    /\ calls' = calls + 1
    /\ previous' = Outcome(frame)
    /\ returned' = "none"
    /\ pc' = "entry"
    /\ UNCHANGED <<dimensions, labelContent, frame>>
    /\ UNCHANGED <<statusVars, previewVars, printerVars, formVars>>

Next ==
    \/ Setup
    \/ Header
    \/ Separator
    \/ Image
    \/ Fit
    \/ Items
    \/ DrawImage
    \/ Save
    \/ CallAgain

Spec == Init /\ [][Next]_vars

----------------------------------------------------------------------------
(* The print-status route: POST /api/print-status *)

\* JSON values as the handler sees them; a key an object does not have reads
\* as undefined
Undefined == [type |-> "undefined"]
JsonNull == [type |-> "null"]
JsonNumber == [type |-> "number"]
JsonArray == [type |-> "array"]
JsonString(str) == [type |-> "string", str |-> str]

SchemaKeys == {"jobId", "status", "message", "printerName"}

StatusValues ==
    {Undefined, JsonNull, JsonNumber} \cup
    { JsonString(str) : str \in {"success", "error", "pending", "SUCCESS", ""} }
OptionalValues == {Undefined, JsonNull, JsonNumber, JsonString("x"), JsonString("")}
\* a key the schema does not name
ExtraValues == {Undefined, JsonNumber}

JsonObjects ==
    { [type |-> "object",
       fields |-> [jobId |-> j, status |-> st, message |-> m, printerName |-> pn,
                   copies |-> x]] :
        j \in OptionalValues, st \in StatusValues, m \in OptionalValues,
        pn \in {Undefined, JsonNull, JsonString("x")}, x \in ExtraValues }

\* request bodies: text that is not JSON, JSON that is not an object, objects
Requests ==
    {[kind |-> "text"]} \cup
    { [kind |-> "json", value |-> v] :
        v \in {JsonNull, JsonNumber, JsonArray, JsonString("success")} \cup JsonObjects }

\* z.string() of zod's coercing variant, which takes numbers as well
ZStringCoerce(v) == v.type \in {"string", "number"}
\* z.string()
ZString(v) == v.type = "string"
\* z.enum(values)
ZEnum(values, v) == v.type = "string" /\ v.str \in values
\* z.string().optional(): undefined passes, anything else goes to z.string()
ZStringOptional(v) == v.type = "undefined" \/ ZString(v)

PrintStatusSchema(key, v) ==
    CASE key = "jobId" -> ZStringOptional(v)
      [] key = "status" -> ZEnum({"success", "error"}, v)
      [] key = "message" -> ZStringOptional(v)
      [] key = "printerName" -> ZStringOptional(v)

\* PrintStatusSchema.safeParse(value): the paths of the issues, and the data
\* with the keys the schema does not name stripped
safeParse(value) ==
    IF value.type # "object"
    THEN [success |-> FALSE, issues |-> {"<root>"}]
    ELSE LET issues == { k \in SchemaKeys : ~PrintStatusSchema(k, value.fields[k]) }
         IN  IF issues = {}
             THEN [success |-> TRUE, issues |-> {},
                   data |-> [k \in SchemaKeys |-> value.fields[k]]]
             ELSE [success |-> FALSE, issues |-> issues]

Json200 == [status |-> 200, message |-> "Status received successfully"]
Json400(details) == [status |-> 400, error |-> "Invalid payload", details |-> details]
Json500 == [status |-> 500, error |-> "Failed to process status update"]

\* no call of generatePdf is running
LayoutIdle ==
    /\ dimensions = CHOOSE d \in Dimensions : TRUE
    /\ labelContent = CHOOSE c \in LabelContents : TRUE
    /\ pc = "idle"
    /\ frame = FreshFrame
    /\ returned = "none"
    /\ calls = 0
    /\ previous = "none"

InitStatus ==
    /\ request \in Requests
    /\ handlerPc = "entry"
    /\ body = Undefined
    /\ responses = <<>>
    /\ LayoutIdle /\ PreviewIdle /\ PrintersIdle /\ FormIdle

\* const body = await req.json(): rejects when the body is not JSON
ReadJson ==
    /\ handlerPc = "entry"
    /\ IF request.kind = "json"
       THEN body' = request.value /\ handlerPc' = "validate"
       ELSE body' = body /\ handlerPc' = "catch"
    /\ UNCHANGED <<request, responses>>
    /\ UNCHANGED <<layoutVars, previewVars, printerVars, formVars>>

\* safeParse and the 400 return
Validate ==
    /\ handlerPc = "validate"
    /\ LET validationResult == safeParse(body)
       IN  IF ~validationResult.success
           THEN /\ responses' = Append(responses, Json400(validationResult.issues))
                /\ handlerPc' = "done"
           ELSE /\ responses' = responses
                /\ handlerPc' = "log"
    /\ UNCHANGED <<request, body>>
    /\ UNCHANGED <<layoutVars, previewVars, printerVars, formVars>>

\* the logging placeholder and the 200 return
Acknowledge ==
    /\ handlerPc = "log"
    /\ responses' = Append(responses, Json200)
    /\ handlerPc' = "done"
    /\ UNCHANGED <<request, body>>
    /\ UNCHANGED <<layoutVars, previewVars, printerVars, formVars>>

\* the catch block
Catch ==
    /\ handlerPc = "catch"
    /\ responses' = Append(responses, Json500)
    /\ handlerPc' = "done"
    /\ UNCHANGED <<request, body>>
    /\ UNCHANGED <<layoutVars, previewVars, printerVars, formVars>>

NextStatus ==
    \/ ReadJson
    \/ Validate
    \/ Acknowledge
    \/ Catch

SpecStatus == InitStatus /\ [][NextStatus]_vars

----------------------------------------------------------------------------
(* LabelPreview: the debounced preview effect *)

\* how many times the inputs of the preview change after the first render
MaxChanges == 3

\* the render whose inputs are current
latestRender == Len(previewInputs)

\* !isProcessing && summary && items.length > 0, as the closure of render r sees it
HasContent(r) == previewInputs[r].hasContent

\* the first render: the effect has set its timer
InitPreview ==
    /\ previewInputs \in { <<[hasContent |-> c]>> : c \in BOOLEAN }
    /\ timeoutId = 1
    /\ generating = {}
    /\ objectUrls = {}
    /\ revokedUrls = {}
    /\ pdfPreviewUrl = 0
    /\ LayoutIdle /\ StatusIdle /\ PrintersIdle /\ FormIdle

\* a dependency of the effect changes: the cleanup of the previous render's
\* effect runs (clearTimeout, revokeObjectURL when its objectUrl is set), then
\* the new render's effect sets its own timer
ChangeInputs ==
    /\ latestRender <= MaxChanges
    /\ \E c \in BOOLEAN :
          previewInputs' = Append(previewInputs, [hasContent |-> c])
    /\ timeoutId' = latestRender + 1
    /\ revokedUrls' = IF latestRender \in objectUrls
                      THEN revokedUrls \cup {latestRender}
                      ELSE revokedUrls
    /\ UNCHANGED <<generating, objectUrls, pdfPreviewUrl>>
    /\ UNCHANGED <<layoutVars, statusVars, printerVars, formVars>>

\* the 300 ms pass: startPreviewTransition(generatePreview) runs up to its await
TimerFires ==
    /\ timeoutId # 0
    /\ timeoutId' = 0
    /\ IF HasContent(timeoutId)
       THEN /\ generating' = generating \cup {timeoutId}
            /\ pdfPreviewUrl' = pdfPreviewUrl
       ELSE /\ generating' = generating
            /\ pdfPreviewUrl' = 0
    /\ UNCHANGED <<previewInputs, objectUrls, revokedUrls>>
    /\ UNCHANGED <<layoutVars, statusVars, printerVars, formVars>>

\* generatePdf of render r resolves: the URL is created and displayed
GenerationResolves ==
    /\ \E r \in generating :
          /\ generating' = generating \ {r}
          /\ objectUrls' = objectUrls \cup {r}
          /\ pdfPreviewUrl' = r
    /\ UNCHANGED <<previewInputs, timeoutId, revokedUrls>>
    /\ UNCHANGED <<layoutVars, statusVars, printerVars, formVars>>

\* generatePdf of render r rejects: the catch block clears the preview
GenerationRejects ==
    /\ \E r \in generating :
          /\ generating' = generating \ {r}
          /\ pdfPreviewUrl' = 0
    /\ UNCHANGED <<previewInputs, timeoutId, objectUrls, revokedUrls>>
    /\ UNCHANGED <<layoutVars, statusVars, printerVars, formVars>>

NextPreview ==
    \/ ChangeInputs
    \/ TimerFires
    \/ GenerationResolves
    \/ GenerationRejects

SpecPreview == InitPreview /\ [][NextPreview]_vars

----------------------------------------------------------------------------
(* LabelVisionPage: the health check and the printer list *)

\* how many fetchPrinters calls and checkApiHealth calls a behaviour has
MaxFetches == 4
MaxHealthChecks == 3

NoPrinter == "null"
\* what GET /api/printers may answer with
PrinterLists == { <<>>, <<"p1">>, <<"p2">>, <<"p1", "p2">> }
Includes(printers, p) == \E i \in 1..Len(printers) : printers[i] = p

\* the state of the page the effect reads and writes
PageState ==
    [apiStatus |-> apiStatus, availablePrinters |-> availablePrinters,
     selectedPrinter |-> selectedPrinter, printerFetches |-> printerFetches,
     fetchesStarted |-> fetchesStarted]

\* fetchPrinters up to its first await: not healthy clears the list and the
\* selection (a second run for the cleared selection does the same again),
\* healthy sends the request, whose closure keeps the selectedPrinter it saw
fetchPrinters(st) ==
    IF st.apiStatus # "healthy"
    THEN [st EXCEPT !.availablePrinters = <<>>, !.selectedPrinter = NoPrinter]
    ELSE [st EXCEPT !.printerFetches =
                        @ \cup {[id |-> st.fetchesStarted + 1,
                                 selectedPrinter |-> st.selectedPrinter]},
                    !.fetchesStarted = @ + 1]

\* the effect runs again when apiStatus or selectedPrinter changed
RunEffects(old, new) ==
    IF new.apiStatus # old.apiStatus \/ new.selectedPrinter # old.selectedPrinter
    THEN fetchPrinters(new)
    ELSE new

\* the page takes the state st
Becomes(st) ==
    /\ st.fetchesStarted <= MaxFetches
    /\ apiStatus' = st.apiStatus
    /\ availablePrinters' = st.availablePrinters
    /\ selectedPrinter' = st.selectedPrinter
    /\ printerFetches' = st.printerFetches
    /\ fetchesStarted' = st.fetchesStarted

\* the mount: the first checkApiHealth is on its way, fetchPrinters saw 'pending'
InitPrinters ==
    /\ apiStatus = "pending"
    /\ availablePrinters = <<>>
    /\ selectedPrinter = NoPrinter
    /\ printerFetches = {}
    /\ fetchesStarted = 0
    /\ healthChecks = 1
    /\ healthChecksStarted = 1
    /\ LayoutIdle /\ StatusIdle /\ PreviewIdle /\ FormIdle

\* setInterval calls checkApiHealth
HealthCheckStarts ==
    /\ healthChecksStarted < MaxHealthChecks
    /\ healthChecks' = healthChecks + 1
    /\ healthChecksStarted' = healthChecksStarted + 1
    /\ UNCHANGED <<apiStatus, availablePrinters, selectedPrinter, printerFetches,
                   fetchesStarted>>
    /\ UNCHANGED <<layoutVars, statusVars, previewVars, formVars>>

\* a checkApiHealth gets its answer and sets apiStatus
HealthCheckResolves ==
    /\ healthChecks > 0
    /\ healthChecks' = healthChecks - 1
    /\ \E result \in {"healthy", "unhealthy"} :
          Becomes(RunEffects(PageState, [PageState EXCEPT !.apiStatus = result]))
    /\ UNCHANGED healthChecksStarted
    /\ UNCHANGED <<layoutVars, statusVars, previewVars, formVars>>

\* a fetchPrinters gets a list of printer names
FetchResolves ==
    /\ \E f \in printerFetches, printers \in PrinterLists :
          LET first == IF Len(printers) > 0 THEN printers[1] ELSE NoPrinter
              replace == f.selectedPrinter = NoPrinter
                           \/ ~Includes(printers, f.selectedPrinter)
              new == [PageState EXCEPT
                         !.printerFetches = @ \ {f},
                         !.availablePrinters = printers,
                         !.selectedPrinter = IF replace THEN first ELSE @]
          IN  Becomes(RunEffects(PageState, new))
    /\ UNCHANGED <<healthChecks, healthChecksStarted>>
    /\ UNCHANGED <<layoutVars, statusVars, previewVars, formVars>>

\* a fetchPrinters fails (network error, not ok, not a list of strings)
FetchFails ==
    /\ \E f \in printerFetches :
          LET new == [PageState EXCEPT
                         !.printerFetches = @ \ {f},
                         !.availablePrinters = <<>>,
                         !.selectedPrinter = NoPrinter]
          IN  Becomes(RunEffects(PageState, new))
    /\ UNCHANGED <<healthChecks, healthChecksStarted>>
    /\ UNCHANGED <<layoutVars, statusVars, previewVars, formVars>>

\* the user picks a printer; the select is enabled only when healthy with a list
handlePrinterChange ==
    /\ apiStatus = "healthy"
    /\ Len(availablePrinters) > 0
    /\ \E i \in 1..Len(availablePrinters) :
          Becomes(RunEffects(PageState,
                             [PageState EXCEPT !.selectedPrinter = availablePrinters[i]]))
    /\ UNCHANGED <<healthChecks, healthChecksStarted>>
    /\ UNCHANGED <<layoutVars, statusVars, previewVars, formVars>>

NextPrinters ==
    \/ HealthCheckStarts
    \/ HealthCheckResolves
    \/ FetchResolves
    \/ FetchFails
    \/ handlePrinterChange

SpecPrinters == InitPrinters /\ [][NextPrinters]_vars

----------------------------------------------------------------------------
(* LabelDimensionsForm and the dimensions of LabelVisionPage *)

\* JavaScript numbers: inches in thousandths, or NaN
Number(v) == [nan |-> FALSE, value |-> v]
NaN == [nan |-> TRUE, value |-> 0]
isNaN(n) == n.nan

MIN_DIMENSION == 500
MAX_DIMENSION == 12000

\* the presets of the size select
LABEL_SIZES ==
    [small  |-> [labelWidthInches |-> Number(2250), labelHeightInches |-> Number(1250)],
     medium |-> [labelWidthInches |-> Number(4000), labelHeightInches |-> Number(2000)]]

\* what the user leaves in a field
TypedTexts == {"", "0", "0.4", "0.5", "0.50", "2.25", "12", "12.5", "-3", "1e1"}

\* parseFloat on the texts a field can hold
parseFloat(text) ==
    CASE text = "0"    -> Number(0)
      [] text = "0.4"  -> Number(400)
      [] text = "0.5"  -> Number(500)
      [] text = "0.50" -> Number(500)
      [] text = "1.25" -> Number(1250)
      [] text = "2"    -> Number(2000)
      [] text = "2.25" -> Number(2250)
      [] text = "4"    -> Number(4000)
      [] text = "10"   -> Number(10000)
      [] text = "1e1"  -> Number(10000)
      [] text = "12"   -> Number(12000)
      [] text = "12.5" -> Number(12500)
      [] text = "-3"   -> Number(-3000)
      [] OTHER         -> NaN

\* Number.prototype.toString on the numbers the form can be given
toString(n) ==
    IF isNaN(n) THEN "NaN"
    ELSE CASE n.value = 0     -> "0"
           [] n.value = 400   -> "0.4"
           [] n.value = 500   -> "0.5"
           [] n.value = 1250  -> "1.25"
           [] n.value = 2000  -> "2"
           [] n.value = 2250  -> "2.25"
           [] n.value = 4000  -> "4"
           [] n.value = 10000 -> "10"
           [] n.value = 12000 -> "12"
           [] n.value = 12500 -> "12.5"
           [] n.value = -3000 -> "-3"

\* variant: only the width is validated
validateAndPropagateWidthOnly(newWidthStr, newHeightStr) ==
    LET newWidthNum == parseFloat(newWidthStr)
        newHeightNum == parseFloat(newHeightStr)
        widthBad == isNaN(newWidthNum) \/ newWidthNum.value < MIN_DIMENSION
                        \/ newWidthNum.value > MAX_DIMENSION
    IN  [widthError |-> widthBad, heightError |-> FALSE, valid |-> ~widthBad,
         dimensions |-> [labelWidthInches |-> newWidthNum,
                         labelHeightInches |-> newHeightNum]]

\* validateAndPropagate: the two errors it sets, and whether and with what it
\* calls onDimensionsChange
validateAndPropagate(newWidthStr, newHeightStr) ==
    LET newWidthNum == parseFloat(newWidthStr)
        newHeightNum == parseFloat(newHeightStr)
        widthBad == isNaN(newWidthNum) \/ newWidthNum.value < MIN_DIMENSION
                        \/ newWidthNum.value > MAX_DIMENSION
        heightBad == isNaN(newHeightNum) \/ newHeightNum.value < MIN_DIMENSION
                        \/ newHeightNum.value > MAX_DIMENSION
    IN  [widthError |-> widthBad, heightError |-> heightBad,
         valid |-> ~widthBad /\ ~heightBad,
         dimensions |-> [labelWidthInches |-> newWidthNum,
                         labelHeightInches |-> newHeightNum]]

\* the page takes new dimensions; the form's effect on initialDimensions resets
\* both fields to the numbers' texts and clears both errors
SetCurrentDimensions(newDimensions) ==
    /\ currentDimensions' = newDimensions
    /\ width' = toString(newDimensions.labelWidthInches)
    /\ height' = toString(newDimensions.labelHeightInches)
    /\ widthError' = FALSE
    /\ heightError' = FALSE

\* an edit: the field keeps the text, the errors are set, and a valid pair goes
\* to onDimensionsChange, which is the page's setCurrentDimensions
Edit(newWidthStr, newHeightStr) ==
    LET result == validateAndPropagate(newWidthStr, newHeightStr)
    IN  IF result.valid
        THEN /\ SetCurrentDimensions(result.dimensions)
             /\ propagated' = [called |-> TRUE, dimensions |-> result.dimensions]
        ELSE /\ width' = newWidthStr
             /\ height' = newHeightStr
             /\ widthError' = result.widthError
             /\ heightError' = result.heightError
             /\ currentDimensions' = currentDimensions
             /\ propagated' = [called |-> FALSE]

InitForm ==
    /\ currentDimensions = LABEL_SIZES.small
    /\ width = toString(LABEL_SIZES.small.labelWidthInches)
    /\ height = toString(LABEL_SIZES.small.labelHeightInches)
    /\ widthError = FALSE
    /\ heightError = FALSE
    /\ propagated = [called |-> FALSE]
    /\ LayoutIdle /\ StatusIdle /\ PreviewIdle /\ PrintersIdle

handleWidthChange ==
    /\ \E newValue \in TypedTexts : Edit(newValue, height)
    /\ UNCHANGED <<layoutVars, statusVars, previewVars, printerVars>>

handleHeightChange ==
    /\ \E newValue \in TypedTexts : Edit(width, newValue)
    /\ UNCHANGED <<layoutVars, statusVars, previewVars, printerVars>>

handleLabelSizeChange ==
    /\ \E value \in DOMAIN LABEL_SIZES : SetCurrentDimensions(LABEL_SIZES[value])
    /\ propagated' = [called |-> FALSE]
    /\ UNCHANGED <<layoutVars, statusVars, previewVars, printerVars>>

NextForm ==
    \/ handleWidthChange
    \/ handleHeightChange
    \/ handleLabelSizeChange

SpecForm == InitForm /\ [][NextForm]_vars

----------------------------------------------------------------------------
(* Vocabulary of the properties *)

ValidCanvas == dimensions.labelWidthQ > 0 /\ dimensions.labelHeightQ > 0
AfterFit == pc \in {"items", "drawImage", "save", "done"}
\* the search has just returned
FitChosen == pc = "items"
ItemPrims(p) == SelectSeq(p, LAMBDA d : d.kind = "item")

\* a call run on a fresh frame resolves with what the state machine resolved with
SanityRunMatches == pc = "done" => Outcome(frame) = generatePdf(dimensions, labelContent)

----------------------------------------------------------------------------
(* Properties *)

InCanvas(x, y) == 0 <= x /\ x <= frame.width /\ 0 <= y /\ y <= frame.height

PrimInCanvas(d) ==
    CASE d.kind = "line"  -> InCanvas(d.x0, d.y0) /\ InCanvas(d.x1, d.y1)
      [] d.kind = "image" -> InCanvas(d.x, d.y) /\ InCanvas(d.x + d.width, d.y + d.height)
      [] OTHER            -> InCanvas(d.x, d.y)

\* C1: on a canvas with width > 0 and height > 0, every primitive drawn so far
\* (header text, separator end points, item texts, image rectangle) has its x
\* in [0, width] and its y in [0, height].
C1_PrimitivesInsideCanvas ==
    ValidCanvas => \A i \in 1..Len(frame.page) : PrimInCanvas(frame.page[i])

\* the constraints of one (fontSize, columns) pair, written from the statement
\* of the search rather than from its code
RefFits(fontSize, columns) ==
    LET n == Len(labelContent.items)
        rows == IF n % columns = 0 THEN n \div columns ELSE n \div columns + 1
    IN  /\ rows * (heightAtSize(frame.baseFont, fontSize) + itemSpacing)
              <= availableHeightForItems(frame)
        /\ \A i \in 1..n :
              columns * widthOfTextAtSize(frame.baseFont, labelContent.items[i], fontSize)
                  <= contentWidth(frame) - (columns - 1) * margin

RefPairs ==
    { p \in (minItemFontSize..maxItemFontSize) \X (1..maxNumCols) : RefFits(p[1], p[2]) }

\* the best of all 27 pairs: largest font size, then most columns
Best(pairs) ==
    CHOOSE p \in pairs :
        \A q \in pairs : q[1] < p[1] \/ (q[1] = p[1] /\ q[2] <= p[2])

SearchRuns == Len(labelContent.items) > 0 /\ availableHeightForItems(frame) > 0

\* C2: for a non-empty item list and a positive vertical budget, when some pair
\* in 6..14 x 1..3 satisfies the height and the width constraint, the search
\* returns the pair with the largest such font size and, at that size, the
\* largest such column count: the result of the exhaustive search of all pairs.
C2_FitIsExhaustiveBest ==
    (FitChosen /\ SearchRuns)
        => LET pairs == RefPairs
           IN  pairs # {} => <<frame.optimalFontSize, frame.optimalColumns>> = Best(pairs)

\* a search whose answer is neither the first pair tried nor the fallback
C2_Witness ==
    /\ pc = "done" /\ SearchRuns /\ RefPairs # {}
    /\ frame.optimalFontSize \in (minItemFontSize + 1)..(maxItemFontSize - 1)
    /\ frame.optimalColumns = 2
    /\ Len(ItemPrims(frame.page)) = Len(labelContent.items)

\* C3: in every state the chosen item fit has 1 <= columns <= 3 and
\* 6 <= fontSize <= 14.
C3_FitInRange ==
    /\ frame.optimalColumns \in 1..maxNumCols
    /\ frame.optimalFontSize \in minItemFontSize..maxItemFontSize

\* a search that ran all 27 pairs and found none
C3_Witness ==
    /\ pc = "done" /\ ValidCanvas /\ SearchRuns /\ RefPairs = {}
    /\ frame.optimalFontSize = minItemFontSize /\ frame.optimalColumns = 1

\* the item font size a call chooses on a canvas of another height
FontSizeAtHeight(hQ) ==
    FrameAtFit([dimensions EXCEPT !.labelHeightQ = hQ], labelContent).optimalFontSize

\* C4: a canvas that differs only by a greater height never gets a smaller item
\* font size.
C4_HeightMonotone ==
    FitChosen =>
        \A hQ \in HeightsQ :
            hQ > dimensions.labelHeightQ => FontSizeAtHeight(hQ) >= frame.optimalFontSize

\* a taller canvas that gets a strictly larger font than one where the search hit
C4_Witness ==
    /\ pc = "done" /\ ValidCanvas /\ SearchRuns /\ RefPairs # {}
    /\ labelContent.image.format = "jpeg"
    /\ \E hQ \in HeightsQ :
          hQ > dimensions.labelHeightQ /\ FontSizeAtHeight(hQ) > frame.optimalFontSize

\* C5: a second call with the same arguments leaves behind exactly what the
\* first did: same page (header, separator, items, image), same header size,
\* same item font size and column count, same image size.
C5_SameArgumentsSameOutcome ==
    (pc = "done" /\ calls > 1) => Outcome(frame) = previous

C5_Witness ==
    /\ pc = "done" /\ calls > 1 /\ ValidCanvas
    /\ Len(ItemPrims(frame.page)) >= 2
    /\ \E i \in 1..Len(frame.page) : frame.page[i].kind = "image"

\* C6: with an empty item list and no image, the finished page holds exactly
\* two primitives, the header text and then the separator line.
C6_EmptyItemsHeaderAndLine ==
    (pc = "done" /\ labelContent.items = <<>> /\ labelContent.image = NoImage)
        => /\ Len(returned.primitives) = 2
           /\ returned.primitives[1].kind = "header"
           /\ returned.primitives[2].kind = "line"

C6_Witness ==
    /\ pc = "done" /\ labelContent.items = <<>> /\ labelContent.image = NoImage
    /\ ValidCanvas /\ labelContent.summary # <<>>
    /\ availableHeightForItems(frame) > 0

TooWideAtFloor ==
    \E i \in 1..Len(labelContent.items) :
        widthOfTextAtSize(frame.baseFont, labelContent.items[i], minItemFontSize)
            > contentWidth(frame)

\* C7: when some item is wider than the horizontal budget at the minimum item
\* font size, the chosen fit is font size 6 with 1 column, and the call runs on.
C7_TooWideItemFloorFit ==
    (FitChosen /\ TooWideAtFloor)
        => /\ frame.optimalFontSize = minItemFontSize
           /\ frame.optimalColumns = 1
           /\ ENABLED Items

C7_Witness ==
    /\ pc = "done" /\ ValidCanvas /\ SearchRuns /\ TooWideAtFloor
    /\ \E i \in 1..Len(labelContent.items) :
          widthOfTextAtSize(frame.baseFont, labelContent.items[i], minItemFontSize)
              <= contentWidth(frame)

\* C8: with a canvas width or height <= 0 the call fails before anything is
\* fitted or drawn: nothing is on the page and no page is returned.
C8_InvalidCanvasRejected ==
    ~ValidCanvas => (frame.page = <<>> /\ returned = "none")

\* a data URI that is neither PNG nor JPEG, or a PNG/JPEG whose embedding throws
ImageUnusable ==
    /\ labelContent.image # NoImage
    /\ \/ labelContent.image.format \notin {"png", "jpeg"}
       \/ ~labelContent.image.decodes

\* C9: with an image of an unrecognised format, or one whose embedding throws,
\* the call finishes with exactly what it leaves for the same arguments without
\* an image: image zone height 0, same budget, same fit, same page, no image
\* primitive.
C9_UnusableImageAsNoImage ==
    (pc = "done" /\ ImageUnusable)
        => /\ Outcome(frame)
                = generatePdf(dimensions, [labelContent EXCEPT !.image = NoImage])
           /\ frame.imageSectionHeight = 0
           /\ \A i \in 1..Len(returned.primitives) : returned.primitives[i].kind # "image"

C9_Witness ==
    /\ pc = "done" /\ ImageUnusable /\ ValidCanvas
    /\ Len(ItemPrims(frame.page)) >= 1
    /\ generatePdf(dimensions,
                   [labelContent EXCEPT !.image.format = "jpeg", !.image.decodes = TRUE])
           # Outcome(frame)

\* C10 as stated: with an empty item list the fit is the maximum item font
\* size with 1 column and no item primitive is drawn.
C10_EmptyItemsMaxFont ==
    (AfterFit /\ labelContent.items = <<>>)
        => /\ frame.optimalFontSize = maxItemFontSize
           /\ frame.optimalColumns = 1
           /\ ItemPrims(frame.page) = <<>>

\* C10 amended: with an empty item list the fit is the minimum item font size
\* (6) with 1 column and no item primitive is drawn.
C10_EmptyItemsFloorFont ==
    (AfterFit /\ labelContent.items = <<>>)
        => /\ frame.optimalFontSize = minItemFontSize
           /\ frame.optimalColumns = 1
           /\ ItemPrims(frame.page) = <<>>

C10_Witness ==
    /\ pc = "done" /\ labelContent.items = <<>> /\ ValidCanvas
    /\ availableHeightForItems(frame) > Pt(maxItemFontSize)

----------------------------------------------------------------------------
(* Header, budget, image and item placement *)

\* the header has been fitted and drawn by the running call
HeaderDrawn == pc \notin {"entry", "header"}
AfterImage == pc \in {"fit", "items", "drawImage", "save", "done"}
headerPrim == frame.page[1]
ImagePrims(p) == SelectSeq(p, LAMBDA d : d.kind = "image")

\* the item budget the code's chain of subtractions gives for a header line
\* of height hh
BudgetWithHeaderHeight(hh) ==
    frame.height - margin - hh - headerBottomMargin - lineTopMargin
        - lineBottomMargin - margin - frame.imageSectionHeight

\* C11: with an empty header string the header has zero width and takes no
\* height: the item budget is the one a header line of height 0 gives.
C11_EmptyHeaderTakesNoHeight ==
    (FitChosen /\ labelContent.summary = <<>>)
        => /\ frame.headerTextWidth = 0
           /\ availableHeightForItems(frame) = BudgetWithHeaderHeight(0)

HeaderFitsIn(limit, size) ==
    widthOfTextAtSize(frame.boldFont, labelContent.summary, size) <= limit

\* the largest size in 8..24 at which the header is no wider than limit, or 8
LargestHeaderSizeWithin(limit) ==
    LET fitting == { sz \in minHeaderFontSize..maxHeaderFontSize : HeaderFitsIn(limit, sz) }
    IN  IF fitting = {} THEN minHeaderFontSize
        ELSE CHOOSE sz \in fitting : \A t \in fitting : t <= sz

\* the body is a JSON object whose status is 'success' or 'error' and whose
\* jobId, message and printerName, where present, are strings
PayloadAsDocumented ==
    /\ request.kind = "json"
    /\ request.value.type = "object"
    /\ request.value.fields.status \in {JsonString("success"), JsonString("error")}
    /\ \A k \in {"jobId", "message", "printerName"} :
           request.value.fields[k] # Undefined
               => request.value.fields[k].type = "string"

\* C12: POST /api/print-status answers 200 'Status received successfully'
\* exactly when the body is JSON with status 'success' or 'error' and string
\* jobId/message/printerName where present, 400 'Invalid payload' when the body
\* is JSON but not of that shape, 500 'Failed to process status update' when
\* the body is not JSON; every request gets exactly one response.
C12_PrintStatusResponses ==
    /\ handlerPc \in {"entry", "validate", "log", "catch"}
          => responses = <<>> /\ ENABLED NextStatus
    /\ handlerPc = "done"
          => /\ Len(responses) = 1
             /\ responses[1].status \in {200, 400, 500}
             /\ (responses[1] = Json200 <=> PayloadAsDocumented)
             /\ (responses[1].status = 200 <=> PayloadAsDocumented)
             /\ (responses[1].status = 400
                    <=> request.kind = "json" /\ ~PayloadAsDocumented)
             /\ (responses[1].status = 400 => responses[1].error = "Invalid payload")
             /\ (responses[1].status = 500 <=> request.kind # "json")
             /\ (responses[1].status = 500 => responses[1] = Json500)

\* a payload with a number for jobId was turned down with 400
C12_Witness ==
    /\ handlerPc = "done"
    /\ request.kind = "json"
    /\ request.value.type = "object"
    /\ request.value.fields.status = JsonString("success")
    /\ request.value.fields.jobId = JsonNumber
    /\ responses = <<Json400({"jobId"})>>


\* C13 as stated: the header size is the largest size in 8..24 at which the
\* bold header is no wider than the canvas width, or 8 if there is none.
C13_HeaderFitsCanvasWidth ==
    HeaderDrawn => frame.headerFontSize = LargestHeaderSizeWithin(frame.width)

\* C13 amended: the header size is in 8..24 and is the largest size in 8..24 at
\* which the bold header is no wider than the content width (canvas width minus
\* the 5pt margin on each side), or 8 if there is none.
C13_HeaderFitsContentWidth ==
    HeaderDrawn
        => /\ frame.headerFontSize \in minHeaderFontSize..maxHeaderFontSize
           /\ frame.headerFontSize = LargestHeaderSizeWithin(contentWidth(frame))
           /\ headerPrim.size = frame.headerFontSize

\* the loop stopped strictly between its two ends
C13_Witness ==
    /\ pc = "done" /\ ValidCanvas
    /\ frame.headerFontSize \in (minHeaderFontSize + 1)..(maxHeaderFontSize - 1)
    /\ frame.headerFontSize % 2 = 1

\* C14 as stated: the header's x is 0 for left, (width - headerWidth)/2 for
\* center and width - headerWidth for right alignment.
C14_HeaderXWithoutMargin ==
    HeaderDrawn
        => CASE labelContent.textAlign = "center"
                  -> 2 * headerPrim.x = frame.width - frame.headerTextWidth
             [] labelContent.textAlign = "right"
                  -> headerPrim.x = frame.width - frame.headerTextWidth
             [] OTHER -> headerPrim.x = 0

\* C14 amended: the header's x is the margin (5pt) for left,
\* (width - headerWidth)/2 for center and width - margin - headerWidth for
\* right alignment, headerWidth being the width at the fitted size.
C14_HeaderXWithMargin ==
    HeaderDrawn
        => /\ frame.headerTextWidth
                = widthOfTextAtSize(frame.boldFont, labelContent.summary,
                                    frame.headerFontSize)
           /\ CASE labelContent.textAlign = "center"
                     -> 2 * headerPrim.x = frame.width - frame.headerTextWidth
                [] labelContent.textAlign = "right"
                     -> headerPrim.x + frame.headerTextWidth + Pt(5) = frame.width
                [] OTHER -> headerPrim.x = Pt(5)

C14_Witness ==
    /\ pc = "done" /\ ValidCanvas /\ labelContent.textAlign = "right"
    /\ frame.headerTextWidth > 0 /\ headerPrim.x > 0

headerLineHeight == heightAtSize(frame.boldFont, frame.headerFontSize)

\* C15 as stated: the item budget is the canvas height minus the header line
\* height, 4pt, 2pt, the 0.5pt separator thickness, 4pt and the image zone.
C15_BudgetWithThickness ==
    FitChosen
        => availableHeightForItems(frame)
             = frame.height - headerLineHeight - Pt(4) - Pt(2) - Pt(1) \div 2 - Pt(4)
                 - frame.imageSectionHeight

\* C15 amended: the item budget is the canvas height minus the top margin
\* (5pt), the header line height, the header-bottom-margin (4pt), the
\* separator-top-margin (2pt), the separator-bottom-margin (4pt), the bottom
\* margin (5pt) and the image zone (0 without an embedded image); the
\* separator thickness is not subtracted.
C15_BudgetWithMargins ==
    FitChosen
        => /\ availableHeightForItems(frame)
                = frame.height - Pt(5) - headerLineHeight - Pt(4) - Pt(2) - Pt(4)
                    - Pt(5) - frame.imageSectionHeight
           /\ (~frame.embeddedImage => frame.imageSectionHeight = 0)

C15_Witness ==
    /\ pc = "items" /\ ValidCanvas /\ frame.embeddedImage
    /\ availableHeightForItems(frame) > 0
    /\ frame.headerFontSize < maxHeaderFontSize

\* C16: when the height left for the items is <= 0, the call runs on, the fit
\* is font size 6 with 1 column and no item text is drawn.
C16_NoBudgetFloorFitNoItems ==
    (AfterFit /\ availableHeightForItems(frame) <= 0)
        => /\ frame.optimalFontSize = minItemFontSize
           /\ frame.optimalColumns = 1
           /\ ItemPrims(frame.page) = <<>>
           /\ (pc = "done" => returned.primitives = frame.page)

C16_Witness ==
    /\ pc = "done" /\ ValidCanvas /\ Len(labelContent.items) > 0
    /\ availableHeightForItems(frame) <= 0

\* C17: an embedded image is scaled by one factor that is at most 1, its
\* scaled width is at most the content width, its scaled height at most 0.3
\* times the canvas height, and the image zone is the scaled height plus 4pt
\* above and below.
C17_ImageScaledWithinLimits ==
    (AfterImage /\ frame.embeddedImage)
        => /\ frame.imageDims.width <= Pt(labelContent.image.w)
           /\ frame.imageDims.height <= Pt(labelContent.image.h)
           /\ frame.imageDims.width * labelContent.image.h
                = frame.imageDims.height * labelContent.image.w
           /\ frame.imageDims.width <= contentWidth(frame)
           /\ 10 * frame.imageDims.height <= 3 * frame.height
           /\ frame.imageSectionHeight = frame.imageDims.height + 2 * Pt(4)

\* an image small enough to be kept at its own size
C17_Witness ==
    /\ pc = "done" /\ ValidCanvas /\ frame.embeddedImage
    /\ frame.imageDims.width = Pt(labelContent.image.w)
    /\ frame.imageDims.width < contentWidth(frame)

\* the image a call draws for the same canvas and image with no header text
\* and no items
ImageWithoutText ==
    ImagePrims(generatePdf(dimensions,
                           [labelContent EXCEPT !.summary = <<>>, !.items = <<>>])
                 .result.primitives)

\* C18: a drawn image is centred on the canvas, x = (width - imageWidth)/2, and
\* its bottom edge is at the bottom margin plus the padding (9pt), whatever the
\* header and the items are.
C18_ImageCentredAtBottom ==
    pc = "done"
        => /\ \A i \in 1..Len(frame.page) :
                 frame.page[i].kind = "image"
                    => /\ 2 * frame.page[i].x = frame.width - frame.page[i].width
                       /\ frame.page[i].y = Pt(5) + Pt(4)
                       /\ frame.page[i].width = frame.imageDims.width
                       /\ frame.page[i].height = frame.imageDims.height
           /\ ImagePrims(frame.page) = ImageWithoutText

C18_Witness ==
    /\ pc = "done" /\ ValidCanvas
    /\ Len(ImagePrims(frame.page)) = 1
    /\ Len(ItemPrims(frame.page)) >= 2
    /\ labelContent.summary # <<>>

AllItemsDrawn ==
    /\ Len(labelContent.items) > 0
    /\ Len(ItemPrims(frame.page)) = Len(labelContent.items)

\* C19: when all n items are drawn, item k (from 0) is in column
\* k div ceil(n/columns) at row k mod ceil(n/columns), every column starts at
\* the same top Y and rows step down by the line height plus itemSpacing.
C19_ColumnMajorPlacement ==
    (pc = "done" /\ AllItemsDrawn)
        => LET drawn == ItemPrims(frame.page)
               n == Len(labelContent.items)
               perCol == IF n % frame.optimalColumns = 0
                         THEN n \div frame.optimalColumns
                         ELSE n \div frame.optimalColumns + 1
               lineHeight == heightAtSize(frame.baseFont, frame.optimalFontSize)
               topY == itemListStartY(frame) - lineHeight
           IN  \A k \in 0..(n - 1) :
                   /\ drawn[k + 1].content = labelContent.items[k + 1]
                   /\ drawn[k + 1].col = k \div perCol
                   /\ drawn[k + 1].row = k % perCol
                   /\ drawn[k + 1].y
                        = topY - drawn[k + 1].row * (lineHeight + Pt(3) \div 2)

\* three items in two columns: two rows, then one
C19_Witness ==
    /\ pc = "done" /\ AllItemsDrawn /\ ValidCanvas
    /\ Len(labelContent.items) = 3 /\ frame.optimalColumns = 2

\* C20: no item text is drawn with its Y below the bottom margin (nor inside
\* the zone kept for the image).
C20_NoItemBelowBottomMargin ==
    \A i \in 1..Len(frame.page) :
        frame.page[i].kind = "item"
            => /\ frame.page[i].y >= Pt(5)
               /\ (HeaderDrawn /\ pc # "separator" /\ pc # "image"
                     => frame.page[i].y >= Pt(5) + frame.imageSectionHeight)

\* the check stopped a column after at least one item was drawn
C20_Witness ==
    /\ pc = "done" /\ ValidCanvas
    /\ Len(ItemPrims(frame.page)) >= 1
    /\ Len(ItemPrims(frame.page)) < Len(labelContent.items)

----------------------------------------------------------------------------
(* Degenerate fits, zones, columns and the order of the items *)

Done == pc = "done"
itemsDrawn == ItemPrims(frame.page)
\* some pair of the 27 satisfies both constraints / none does
FitAccepted == SearchRuns /\ RefPairs # {}
DegenerateFit == Len(labelContent.items) > 0 /\ RefPairs = {}
\* the bottom limit of the item area: the bottom margin and, above it, the
\* zone kept for the image
itemFloor == Pt(5) + frame.imageSectionHeight
\* the baseline of the k-th row (from 0) of a column at font size 6
RowYAtFloorSize(k) ==
    LET lineHeight == heightAtSize(frame.baseFont, 6)
    IN  itemListStartY(frame) - lineHeight - k * (lineHeight + Pt(3) \div 2)

C22_AcceptedFitDrawsEveryItem ==
    (Done /\ FitAccepted)
        => /\ Len(itemsDrawn) = Len(labelContent.items)
           /\ \A i \in 1..Len(itemsDrawn) :
                 /\ itemsDrawn[i].index = i - 1
                 /\ itemsDrawn[i].y >= itemFloor

C22_Witness ==
    /\ Done /\ FitAccepted /\ ValidCanvas /\ frame.embeddedImage
    /\ Len(labelContent.items) = 3
    /\ frame.optimalFontSize < maxItemFontSize
    /\ frame.optimalColumns = 2
    /\ labelContent.textAlign = "center"

\* C23: on every label the zones lie top to bottom without overlap: the header
\* baseline is above the separator, the separator above every drawn item, and
\* the top edge of a drawn image below the separator and below every drawn item.
C23_ZonesInOrder ==
    (Done /\ ValidCanvas)
        => LET line == frame.page[2]
               images == ImagePrims(frame.page)
           IN  /\ headerPrim.y > line.y0
               /\ \A i \in 1..Len(itemsDrawn) : itemsDrawn[i].y < line.y0
               /\ \A j \in 1..Len(images) :
                     /\ images[j].y + images[j].height < line.y0
                     /\ \A i \in 1..Len(itemsDrawn) :
                           images[j].y + images[j].height < itemsDrawn[i].y

\* C24: every call ends: the header loop runs at most 16 times (24 down to 8),
\* the search tests at most 9 x 3 pairs, the drawing loops read each item at
\* most once.
C24_LoopsAreBounded ==
    /\ HeaderDrawn
          => /\ frame.headerLoopCount <= 24 - 8
             /\ frame.headerLoopCount = 24 - frame.headerFontSize
    /\ AfterFit => frame.pairsExamined <= 9 * 3
    /\ Done
          => /\ Len(frame.itemsVisited) <= Len(labelContent.items)
             /\ \A i \in 1..Len(frame.itemsVisited) :
                   /\ frame.itemsVisited[i] \in 0..(Len(labelContent.items) - 1)
                   /\ \A j \in 1..(i - 1) : frame.itemsVisited[j] < frame.itemsVisited[i]
             /\ Len(itemsDrawn) <= Len(frame.itemsVisited)

\* every loop went to its end: the header to the floor, the search through all
\* pairs, the drawing up to an item the overflow check stopped
C24_Witness ==
    /\ Done /\ ValidCanvas
    /\ frame.headerLoopCount = 16
    /\ frame.pairsExamined = 27
    /\ Len(frame.itemsVisited) = 2
    /\ Len(itemsDrawn) = 1

\* the left edge and the width of column col when the label has columns columns
RefColWidth(columns) == (contentWidth(frame) - (columns - 1) * Pt(5)) \div columns
RefColStartX(columns, col) == Pt(5) + col * (RefColWidth(columns) + Pt(5))

\* C25: whenever the search accepts a pair, for each alignment every drawn
\* item's extent [x, x + itemWidth] lies inside its own column, neighbouring
\* columns are disjoint and the column gap (5pt) apart, and the last column
\* ends at the canvas width minus the right margin.
C25_ItemsInsideTheirColumns ==
    (Done /\ FitAccepted)
        => LET columns == frame.optimalColumns
               colWidth == RefColWidth(columns)
           IN  /\ columns * colWidth + (columns - 1) * Pt(5) = contentWidth(frame)
               /\ \A i \in 1..Len(itemsDrawn) :
                     LET d == itemsDrawn[i]
                     IN  /\ d.col \in 0..(columns - 1)
                         /\ d.textWidth
                              = widthOfTextAtSize(frame.baseFont, d.content,
                                                  frame.optimalFontSize)
                         /\ RefColStartX(columns, d.col) <= d.x
                         /\ d.x + d.textWidth <= RefColStartX(columns, d.col) + colWidth
               /\ \A col \in 0..(columns - 2) :
                     RefColStartX(columns, col) + colWidth + Pt(5)
                        = RefColStartX(columns, col + 1)
               /\ RefColStartX(columns, columns - 1) + colWidth = frame.width - Pt(5)

C25_Witness ==
    /\ Done /\ FitAccepted /\ ValidCanvas
    /\ labelContent.textAlign = "right"
    /\ frame.optimalColumns = 2
    /\ Len(itemsDrawn) = 3
    /\ itemsDrawn[3].col = 1

\* C26: the item texts drawn are a prefix items[0..k) of the item list, each
\* drawn once and in list order: no item is drawn after an earlier one was
\* left out.
C26_DrawnItemsArePrefix ==
    /\ Len(itemsDrawn) <= Len(labelContent.items)
    /\ \A i \in 1..Len(itemsDrawn) :
          /\ itemsDrawn[i].index = i - 1
          /\ itemsDrawn[i].content = labelContent.items[i]

C26_Witness ==
    /\ Done /\ ValidCanvas
    /\ Len(itemsDrawn) = 2
    /\ Len(labelContent.items) = 3
    /\ labelContent.items[1] # labelContent.items[2]

\* C27: when an image is drawn, every drawn item has its Y at or above the top
\* of the zone kept for the image (bottom margin + scaled image height + twice
\* the padding), so no item text lies in the vertical range of the image.
C27_ItemsAboveImageZone ==
    Done
        => LET images == ImagePrims(frame.page)
           IN  \A j \in 1..Len(images) : \A i \in 1..Len(itemsDrawn) :
                   /\ itemsDrawn[i].y >= Pt(5) + images[j].height + 2 * Pt(4)
                   /\ itemsDrawn[i].y > images[j].y + images[j].height

\* an image is drawn and its zone made the loop leave items out
C27_Witness ==
    /\ Done /\ ValidCanvas
    /\ Len(ImagePrims(frame.page)) = 1
    /\ Len(itemsDrawn) >= 1
    /\ Len(itemsDrawn) < Len(labelContent.items)
    /\ RowYAtFloorSize(Len(itemsDrawn)) >= Pt(5)

----------------------------------------------------------------------------
(* The components *)

\* no timer is pending and no generation is running
PreviewSettled == timeoutId = 0 /\ generating = {}

\* C28: once the inputs have stopped changing and every started generation
\* has completed, the displayed preview is the one of the latest inputs (or
\* none): a generation started for older inputs does not overwrite it; and a
\* pending timer is always the one of the latest inputs, a change having
\* cancelled the timer before it.
C28_LatestPreviewDisplayed ==
    /\ timeoutId \in {0, latestRender}
    /\ PreviewSettled
          => /\ pdfPreviewUrl \in {0, latestRender}
             /\ (~HasContent(latestRender) => pdfPreviewUrl = 0)

\* no health check and no printer fetch is awaiting its answer
PrintersSettled == healthChecks = 0 /\ printerFetches = {}

\* C29: once every health check and printer fetch has settled, the selected
\* printer is null or one of the available printers, and when apiStatus is not
\* 'healthy' the printer list is empty and the selection null.
C29_SettledPrintersConsistent ==
    PrintersSettled
        => /\ selectedPrinter = NoPrinter \/ Includes(availablePrinters, selectedPrinter)
           /\ apiStatus # "healthy"
                 => availablePrinters = <<>> /\ selectedPrinter = NoPrinter

\* a number of inches within [0.5, 12]
WithinLimits(n) == ~n.nan /\ n.value >= 500 /\ n.value <= 12000
\* the texts that read as such a number
GoodTexts == {"0.5", "0.50", "1.25", "2", "2.25", "4", "10", "1e1", "12"}

\* C30: onDimensionsChange is called only with a width and a height that are
\* numbers within [0.5, 12] inches; an edit that leaves a field non-numeric or
\* out of range sets that field's error and does not propagate; so the
\* dimensions handed to the layout always have width > 0 and height > 0.
C30_OnlyValidDimensionsPropagate ==
    /\ propagated.called
          => /\ WithinLimits(propagated.dimensions.labelWidthInches)
             /\ WithinLimits(propagated.dimensions.labelHeightInches)
             /\ currentDimensions = propagated.dimensions
    /\ widthError <=> width \notin GoodTexts
    /\ heightError <=> height \notin GoodTexts
    /\ (width \notin GoodTexts \/ height \notin GoodTexts) => ~propagated.called
    /\ WithinLimits(currentDimensions.labelWidthInches)
    /\ WithinLimits(currentDimensions.labelHeightInches)
    /\ currentDimensions.labelWidthInches.value > 0
    /\ currentDimensions.labelHeightInches.value > 0

\* after an edit went through, the next one left the height out of range
C30_Witness ==
    /\ currentDimensions.labelWidthInches = Number(10000)
    /\ width = "10"
    /\ height = "12.5"
    /\ heightError /\ ~widthError
    /\ ~propagated.called

====
